---- MODULE Spec2Model ----
(***************************************************************************)
(* pyBandits: the UCB1 and EpsilonGreedy bandit algorithms (bandits.py)    *)
(* and the Monte-Carlo harness BanditTestCase._test_algorithm that drives  *)
(* them against Bernoulli arms.                                            *)
(*                                                                         *)
(* Numbers.  Python floats that hold rewards and running means are exact   *)
(* rationals [num, den] in lowest terms (den > 0).  Probabilities (the     *)
(* result of random.random(), epsilon, an arm's p) are integers counting   *)
(* hundredths.  math.log works on fixed-point numbers counting 1e-7, and   *)
(* math.sqrt returns thousandths.  An optional value (None or x) is the    *)
(* sequence <<>> or <<x>>.                                                 *)
(***************************************************************************)
EXTENDS Integers, Sequences, FiniteSets, TLC

\* ------------------------------------------------------------------ bounds
\* Largest n_arms passed to initialize and longest arm list of a simulation.
MaxArms == 3
\* Largest sum(counts) an update call may start from (caps the call history).
MaxPulls == 2
\* Longest trace of a simulation: num_sims * horizon.
MaxSteps == 4

\* ------------------------------------------------------ Python list helpers
None == <<>>
Some(x) == <<x>>

Range(s) == {s[i] : i \in DOMAIN s}

\* list * k: k copies of the list, the empty list when k <= 0.
RECURSIVE ListMul(_, _)
ListMul(list, k) == IF k <= 0 THEN <<>> ELSE list \o ListMul(list, k - 1)

\* list[i] is defined for -len <= i < len; a negative i counts from the end.
InRange(list, i) == (0 - Len(list)) <= i /\ i < Len(list)
\* The 1-based position list[i] denotes.
Pos(list, i) == IF i < 0 THEN Len(list) + i + 1 ELSE i + 1

\* list.index(x): the 0-based index of the first item equal to x.
ListIndex(list, x) ==
    (CHOOSE i \in DOMAIN list : list[i] = x /\ \A j \in 1..(i - 1) : list[j] # x) - 1

RECURSIVE SumInts(_)
SumInts(list) == IF list = <<>> THEN 0 ELSE Head(list) + SumInts(Tail(list))

\* ------------------------------------------------------------------ floats
RECURSIVE GCD(_, _)
GCD(a, b) == IF b = 0 THEN a ELSE GCD(b, a % b)

Abs(a) == IF a < 0 THEN 0 - a ELSE a

Rat(n, d) ==
    LET g == GCD(Abs(n), d)
    IN  IF n = 0 THEN [num |-> 0, den |-> 1] ELSE [num |-> n \div g, den |-> d \div g]

Float(n) == Rat(n, 1)
RAdd(a, b) == Rat(a.num * b.den + b.num * a.den, a.den * b.den)
RMul(a, b) == Rat(a.num * b.num, a.den * b.den)
\* a / b for b > 0 (every divisor of the program is a positive count).
RDiv(a, b) == Rat(a.num * b.den, a.den * b.num)
RLess(a, b) == a.num * b.den < b.num * a.den
RLeq(a, b) == a.num * b.den <= b.num * a.den

RECURSIVE SumRats(_)
SumRats(list) == IF list = <<>> THEN Float(0) ELSE RAdd(Head(list), SumRats(Tail(list)))

\* One unit of the fixed-point argument and result of math.log is 1e-7.
LogScale == 10000000

\* ln(t) for an integer t >= 1, in units of 1e-7.
LnTable(t) ==
    CASE t = 1 -> 0
      [] t = 2 -> 6931472
      [] t = 3 -> 10986123
      [] t = 4 -> 13862944
      [] t = 5 -> 16094379
      [] t = 6 -> 17917595
      [] t = 7 -> 19459101
      [] t = 8 -> 20794415
      [] t = 9 -> 21972246
      [] t = 10 -> 23025851
      [] t = 11 -> 23978953
      [] t = 12 -> 24849066
      [] t = 13 -> 25649494
      [] t = 14 -> 26390573
      [] t = 15 -> 27080502
      [] t = 16 -> 27725887

\* math.log(x) for x = t + f/1e7 with t >= 1 and a tiny f: ln(t) + f/t.
math_log(x) == LnTable(x \div LogScale) + ((x % LogScale) \div (x \div LogScale))

\* The largest k in lo..hi with k * k <= n.
RECURSIVE ISqrt(_, _, _)
ISqrt(lo, hi, n) ==
    IF lo >= hi THEN lo
    ELSE LET mid == (lo + hi + 1) \div 2
         IN  IF mid * mid <= n THEN ISqrt(mid, hi, n) ELSE ISqrt(lo, mid - 1, n)

\* math.sqrt(x) for x counting 1e-7, as a float rounded down to thousandths.
math_sqrt(x) == Rat(ISqrt(0, 10000, x \div 10), 1000)

\* ---------------------------------------------------------------- max_index
\* max(x) of a non-empty list of floats.
Max(x) == CHOOSE m \in Range(x) : \A v \in Range(x) : RLeq(v, m)

\* max_index that returns the last index of the maximum.
max_index_last(x) ==
    (CHOOSE i \in DOMAIN x : x[i] = Max(x) /\ \A j \in (i + 1)..Len(x) : x[j] # Max(x)) - 1

\* max_index(x): m = max(x); return x.index(m).  max() of an empty list
\* raises ValueError, which the callers below turn into their own outcome.
max_index(x) == ListIndex(x, Max(x))

\* ------------------------------------------------------- algorithm methods
\* A method takes the object's lists and returns them as the call leaves
\* them, with the value returned (ret) and the exception raised (exc).
Outcome(c, v, r, e) == [counts |-> c, values |-> v, ret |-> r, exc |-> e]

\* initialize that resets counts and leaves values as they are.
initialize_keeps_values(c, v, n_arms) ==
    Outcome(ListMul(<<0>>, n_arms), v, None, "none")

\* initialize that does nothing when the object already has n_arms arms.
initialize_once(c, v, n_arms) ==
    IF Len(c) = n_arms /\ Len(v) = n_arms THEN Outcome(c, v, None, "none")
    ELSE Outcome(ListMul(<<0>>, n_arms), ListMul(<<Float(0)>>, n_arms), None, "none")

\* An initialize that adds n_arms zeros to the lists it finds.
initialize_extends(c, v, n_arms) ==
    Outcome(c \o ListMul(<<0>>, n_arms), v \o ListMul(<<Float(0)>>, n_arms), None, "none")

\* An initialize that never makes fewer than one arm.
initialize_at_least_one(c, v, n_arms) ==
    LET n == IF n_arms < 1 THEN 1 ELSE n_arms
    IN  Outcome(ListMul(<<0>>, n), ListMul(<<Float(0)>>, n), None, "none")

\* UCB1.initialize / EpsilonGreedy.initialize (the two bodies are the same).
initialize(c, v, n_arms) ==
    Outcome(ListMul(<<0>>, n_arms), ListMul(<<Float(0)>>, n_arms), None, "none")

\* bonus = math.sqrt((2 * math.log(total_counts)) / float(self.counts[arm]))
Bonus(total_counts, count) ==
    math_sqrt((2 * math_log(total_counts * LogScale)) \div count)

\* The list ucb_values the loop of UCB1.select_arm builds.
UcbValues(c, v) ==
    [arm \in 1..Len(c) |-> RAdd(v[arm], Bonus(SumInts(c), c[arm]))]

\* UCB1.select_arm whose priming returns the last arm never tried.
UCB1_select_arm_last_untried(c, v) ==
    IF 0 \in Range(c)
    THEN Outcome(c, v, Some((CHOOSE i \in DOMAIN c :
                     c[i] = 0 /\ \A j \in (i + 1)..Len(c) : c[j] # 0) - 1), "none")
    ELSE IF Len(v) < Len(c) THEN Outcome(c, v, None, "IndexError")
    ELSE IF Len(c) = 0 THEN Outcome(c, v, None, "ValueError")
    ELSE Outcome(c, v, Some(max_index(UcbValues(c, v))), "none")

UCB1_select_arm(c, v) ==
    IF 0 \in Range(c) THEN Outcome(c, v, Some(ListIndex(c, 0)), "none")
    ELSE IF Len(v) < Len(c) THEN Outcome(c, v, None, "IndexError")
    ELSE IF Len(c) = 0 THEN Outcome(c, v, None, "ValueError")
    ELSE Outcome(c, v, Some(max_index(UcbValues(c, v))), "none")

\* An annealed epsilon that takes the number of arms for the number of pulls.
EffectiveEpsilon_by_arms(eps, c) ==
    IF eps = None
    THEN LET t == Len(c) + 1
         IN  (100 * LogScale) \div math_log(t * LogScale + 1)
    ELSE eps[1]

\* The epsilon of a select_arm that takes an epsilon of 0.0 for a missing one.
EffectiveEpsilon_falsy(eps, c) ==
    IF eps = None \/ eps = Some(0)
    THEN LET t == SumInts(c) + 1
         IN  (100 * LogScale) \div math_log(t * LogScale + 1)
    ELSE eps[1]

\* The epsilon EpsilonGreedy.select_arm compares the draw with, in hundredths.
EffectiveEpsilon(eps, c) ==
    IF eps = None
    THEN LET t == SumInts(c) + 1
         IN  (100 * LogScale) \div math_log(t * LogScale + 1)
    ELSE eps[1]

\* EpsilonGreedy.select_arm that counts the arm it explores as pulled.
EpsilonGreedy_select_arm_counting(eps, c, v, u, r) ==
    IF u > EffectiveEpsilon(eps, c)
    THEN IF Len(v) = 0 THEN Outcome(c, v, None, "ValueError")
         ELSE Outcome(c, v, Some(max_index(v)), "none")
    ELSE IF Len(v) = 0 THEN Outcome(c, v, None, "ValueError")
         ELSE Outcome(IF r < Len(c) THEN [c EXCEPT ![r + 1] = @ + 1] ELSE c,
                      v, Some(r), "none")

\* A select_arm that exploits when the draw is below epsilon.
EpsilonGreedy_select_arm_inverted(eps, c, v, u, r) ==
    IF u < EffectiveEpsilon(eps, c)
    THEN IF Len(v) = 0 THEN Outcome(c, v, None, "ValueError")
         ELSE Outcome(c, v, Some(max_index(v)), "none")
    ELSE IF Len(v) = 0 THEN Outcome(c, v, None, "ValueError")
         ELSE Outcome(c, v, Some(r), "none")

\* A select_arm whose explore branch scales the draw, int(u * len(values)),
\* which is 0 for an empty list where randrange raises.
EpsilonGreedy_select_arm_scaled_draw(eps, c, v, u, r) ==
    IF u > EffectiveEpsilon(eps, c)
    THEN IF Len(v) = 0 THEN Outcome(c, v, None, "ValueError")
         ELSE Outcome(c, v, Some(max_index(v)), "none")
    ELSE Outcome(c, v, Some((u * Len(v)) \div 100), "none")

\* u is the result of random.random(), r that of random.randrange(len(values)).
EpsilonGreedy_select_arm(eps, c, v, u, r) ==
    IF u > EffectiveEpsilon(eps, c)
    THEN IF Len(v) = 0 THEN Outcome(c, v, None, "ValueError")
         ELSE Outcome(c, v, Some(max_index(v)), "none")
    ELSE IF Len(v) = 0 THEN Outcome(c, v, None, "ValueError")
         ELSE Outcome(c, v, Some(r), "none")

\* The update with (n - 1) / n taken as an integer division.
NewValue_integer_division(n, value, reward) ==
    RAdd(RMul(Float((n - 1) \div n), value),
         RMul(RDiv(Float(1), Float(n)), reward))

\* new_value = ((n - 1) / float(n)) * value + (1 / float(n)) * reward
NewValue(n, value, reward) ==
    RAdd(RMul(RDiv(Float(n - 1), Float(n)), value),
         RMul(RDiv(Float(1), Float(n)), reward))

\* An update that stores the new mean for every arm.
update_shared_value(c, v, chosen_arm, reward) ==
    IF ~InRange(c, chosen_arm) THEN Outcome(c, v, None, "IndexError")
    ELSE LET n  == c[Pos(c, chosen_arm)] + 1
             c1 == [c EXCEPT ![Pos(c, chosen_arm)] = n]
         IN  IF ~InRange(v, chosen_arm) THEN Outcome(c1, v, None, "IndexError")
             ELSE Outcome(c1,
                          [j \in DOMAIN v |-> NewValue(n, v[Pos(v, chosen_arm)], reward)],
                          None, "none")

\* An update that counts the pull downwards.
update_counting_down(c, v, chosen_arm, reward) ==
    IF ~InRange(c, chosen_arm) THEN Outcome(c, v, None, "IndexError")
    ELSE Outcome([c EXCEPT ![Pos(c, chosen_arm)] = @ - 1], v, None, "none")

\* UCB1.update / EpsilonGreedy.update (the two bodies are the same).
update(c, v, chosen_arm, reward) ==
    IF ~InRange(c, chosen_arm) THEN Outcome(c, v, None, "IndexError")
    ELSE LET n  == c[Pos(c, chosen_arm)] + 1
             c1 == [c EXCEPT ![Pos(c, chosen_arm)] = n]
         IN  IF ~InRange(v, chosen_arm) THEN Outcome(c1, v, None, "IndexError")
             ELSE Outcome(c1,
                          [v EXCEPT ![Pos(v, chosen_arm)] =
                               NewValue(n, v[Pos(v, chosen_arm)], reward)],
                          None, "none")

\* BernoulliArm.draw: 0.0 if random.random() > self.p else 1.0.
draw(p, u) == IF u > p THEN Float(0) ELSE Float(1)

\* ------------------------------------------------------------------- state
VARIABLES
    algo,        \* the class of the algorithm object: "UCB1" or "EpsilonGreedy"
    epsilon,     \* self.epsilon of an EpsilonGreedy: None or hundredths
    counts,      \* self.counts
    values,      \* self.values
    call,        \* the last method call made on the object and its outcome
    nArms,       \* None, or Some(n) of the last initialize(n)
    rewardsOf,   \* per arm, the rewards of the updates since that initialize
    inRangeOnly, \* every update since that initialize had 0 <= chosen_arm < n
    matched,     \* since that initialize: select_arm, update of its arm, ...
    nSelects,    \* the select_arm calls made since that initialize, while matched
    nInits,      \* initialize calls made in a row up to now: 0, 1, or 2 for more
    pc,          \* "api": a caller drives the object; else the harness's place
    arms,        \* the p of each BernoulliArm handed to _test_algorithm
    num_sims, horizon,
    sim, t, index, chosen_arm, reward,
    sim_nums, times, chosen_arms, rewards, cumulative_rewards,
    writes,      \* how often the harness has written each offset of the trace
    drawn        \* None, or Some(i): the reward not yet given to update came from arms[i]

algVars == <<algo, epsilon, counts, values, call,
             nArms, rewardsOf, inRangeOnly, matched, nSelects, nInits>>
simVars == <<pc, arms, num_sims, horizon, sim, t, index, chosen_arm, reward,
             sim_nums, times, chosen_arms, rewards, cumulative_rewards, writes, drawn>>
vars == <<algVars, simVars>>

\* Results of random.random(), in hundredths of [0, 1).
Draws == {0, 50, 99}
\* The epsilon an EpsilonGreedy is constructed with.
Epsilons == {None, Some(0), Some(50), Some(100)}
\* Rewards a caller passes to update.
Rewards == {Float(0), Float(1)}
\* The chosen_arm a caller passes to update on n arms: each arm, the index
\* one past the last, and the negative indices -1 and -(n + 1).
UpdateArms(n) == {0 - n - 1, 0 - 1} \cup 0..n
\* The results random.randrange(n) can give (it raises for n = 0).
RandRange(n) == IF n = 0 THEN {0} ELSE 0..(n - 1)

\* __init__(counts, values): no lists, lists of a resumed experiment, or
\* lists of different lengths.
CtorLists ==
    { <<(<<>>), (<<>>)>>,
      <<(<<1, 0>>), (<<Float(1), Float(0)>>)>>,
      <<(<<1, 1>>), (<<Rat(1, 2)>>)>> }

Call(op, arg, u, o, branch) ==
    [op |-> op, arg |-> arg, u |-> u,
     ret |-> o.ret, exc |-> o.exc, branch |-> branch]

\* The branch select_arm takes.
SelectBranch(u) ==
    IF algo = "UCB1"
    THEN IF 0 \in Range(counts) THEN "prime" ELSE "score"
    ELSE IF u > EffectiveEpsilon(epsilon, counts) THEN "exploit" ELSE "explore"

select_arm(u, r) ==
    IF algo = "UCB1" THEN UCB1_select_arm(counts, values)
    ELSE EpsilonGreedy_select_arm(epsilon, counts, values, u, r)

\* The random numbers a select_arm call can draw: UCB1 draws none.
SelectDraws == IF algo = "UCB1" THEN {0} ELSE Draws
SelectRands == IF algo = "UCB1" THEN {0} ELSE RandRange(Len(values))

\* algo.initialize(n)
CallInitialize(n) ==
    LET o == initialize(counts, values, n)
    IN  /\ counts' = o.counts
        /\ values' = o.values
        /\ call' = Call("initialize", Some(n), None, o, "-")
        /\ nArms' = Some(n)
        /\ rewardsOf' = ListMul(<< <<>> >>, n)
        /\ inRangeOnly' = TRUE
        /\ matched' = TRUE
        /\ nSelects' = 0
        /\ nInits' = IF nInits < 2 THEN nInits + 1 ELSE 2
        /\ UNCHANGED <<algo, epsilon>>

\* algo.select_arm(), with the random numbers it draws
CallSelect(u, r) ==
    LET o  == select_arm(u, r)
        ok == matched /\ o.exc = "none" /\ call.op \in {"initialize", "update"}
    IN  /\ counts' = o.counts
        /\ values' = o.values
        /\ call' = Call("select_arm", None, IF algo = "UCB1" THEN None ELSE Some(u), o,
                     SelectBranch(u))
        /\ matched' = ok
        /\ nSelects' = IF ok THEN nSelects + 1 ELSE 0
        /\ nInits' = 0
        /\ UNCHANGED <<algo, epsilon, nArms, rewardsOf, inRangeOnly>>

\* algo.update(arm, rew)
CallUpdate(arm, rew) ==
    LET o  == update(counts, values, arm, rew)
        ok == matched /\ o.exc = "none" /\ call.op = "select_arm" /\ call.ret = Some(arm)
    IN  /\ counts' = o.counts
        /\ values' = o.values
        /\ call' = Call("update", Some(arm), None, o, "-")
        /\ rewardsOf' = IF o.exc = "none" /\ arm \in 0..(Len(rewardsOf) - 1)
                        THEN [rewardsOf EXCEPT ![arm + 1] = Append(@, rew)]
                        ELSE rewardsOf
        /\ inRangeOnly' = (inRangeOnly /\ arm \in 0..(Len(counts) - 1))
        /\ matched' = ok
        /\ nSelects' = IF ok THEN nSelects ELSE 0
        /\ nInits' = 0
        /\ UNCHANGED <<algo, epsilon, nArms>>

\* ------------------------------------------- a caller driving the object
Idle ==
    /\ pc = "api"
    /\ arms = <<>> /\ num_sims = 0 /\ horizon = 0
    /\ sim = 0 /\ t = 0 /\ index = 0 /\ chosen_arm = 0 /\ reward = Float(0)
    /\ sim_nums = <<>> /\ times = <<>> /\ chosen_arms = <<>>
    /\ rewards = <<>> /\ cumulative_rewards = <<>> /\ writes = <<>>
    /\ drawn = None

\* UCB1(counts, values) or EpsilonGreedy(epsilon, counts, values)
Construct(cls, eps, lists) ==
    /\ algo = cls
    /\ epsilon = eps
    /\ counts = lists[1]
    /\ values = lists[2]
    /\ call = [op |-> "__init__", arg |-> None, u |-> None,
               ret |-> None, exc |-> "none", branch |-> "-"]
    /\ nArms = None
    /\ rewardsOf = <<>>
    /\ inRangeOnly = TRUE
    /\ matched = FALSE
    /\ nSelects = 0
    /\ nInits = 0

Init ==
    /\ \E lists \in CtorLists :
          \/ Construct("UCB1", None, lists)
          \/ \E eps \in Epsilons : Construct("EpsilonGreedy", eps, lists)
    /\ Idle

Initialize ==
    /\ pc = "api"
    /\ \E n \in (0 - 1)..MaxArms : CallInitialize(n)
    /\ UNCHANGED simVars

SelectArm ==
    /\ pc = "api"
    /\ \E u \in SelectDraws, r \in SelectRands : CallSelect(u, r)
    /\ UNCHANGED simVars

Update ==
    /\ pc = "api"
    /\ SumInts(counts) <= MaxPulls
    /\ \E arm \in UpdateArms(Len(counts)), rew \in Rewards : CallUpdate(arm, rew)
    /\ UNCHANGED simVars

Next == Initialize \/ SelectArm \/ Update

Spec == Init /\ [][Next]_vars

\* ------------------------------------- BanditTestCase and _test_algorithm
\* make_arms(means): one BernoulliArm per mean; like the default means, every
\* arm pays 10% of the time but the last, which pays 90% of the time.
make_arms(n) == [i \in 1..n |-> IF i = n THEN 90 ELSE 10]

\* The algorithm objects the tests hand to _test_algorithm.
SimEpsilons == {None, Some(50)}
\* A new object, or one that an earlier experiment has used.
SimCtorLists ==
    { <<(<<>>), (<<>>)>>,
      <<(<<2, 1>>), (<<Rat(1, 2), Float(1)>>)>> }

\* The arm identity recorded as the index itself.
OneBased_not_shifted(arm) == arm

\* chosen_arm + 1: the trace names arms from 1.
OneBased(arm) == arm + 1

\* The offset without the run's stride.
Index_no_stride(s, h, tt) == (s - 1) + tt - 1

\* index = (sim - 1) * horizon + t - 1
Index(s, h, tt) == (s - 1) * h + tt - 1

\* list[i] = x, for an index in the list's range.
ListSet(list, i, x) == [list EXCEPT ![Pos(list, i)] = x]

\* The cumulative reward that always adds to the entry before it.
Cumulative_carried(tt, cum, i, rew) == RAdd(cum[Pos(cum, i - 1)], rew)

\* The value stored in cumulative_rewards[index]:
\* reward if t == 1 else cumulative_rewards[index - 1] + reward.
Cumulative(tt, cum, i, rew) ==
    IF tt = 1 THEN rew ELSE RAdd(cum[Pos(cum, i - 1)], rew)

SimInit ==
    /\ \E lists \in SimCtorLists :
          \/ Construct("UCB1", None, lists)
          \/ \E eps \in SimEpsilons : Construct("EpsilonGreedy", eps, lists)
    /\ pc = "test"
    /\ \E n \in 0..MaxArms : arms = make_arms(n)
    /\ \E s \in 1..MaxSteps, h \in 1..MaxSteps :
          s * h <= MaxSteps /\ num_sims = s /\ horizon = h
    /\ sim = 0 /\ t = 0 /\ index = 0 /\ chosen_arm = 0 /\ reward = Float(0)
    /\ sim_nums = <<>> /\ times = <<>> /\ chosen_arms = <<>>
    /\ rewards = <<>> /\ cumulative_rewards = <<>> /\ writes = <<>>
    /\ drawn = None

\* test_ucb1 and the other tests: algo.initialize(len(arms)) before the run.
TestInitialize ==
    /\ pc = "test"
    /\ CallInitialize(Len(arms))
    /\ pc' = "start"
    /\ UNCHANGED <<arms, num_sims, horizon, sim, t, index, chosen_arm, reward,
                   sim_nums, times, chosen_arms, rewards, cumulative_rewards, writes, drawn>>

\* _test_algorithm is entered (by a test, or with an object as constructed)
\* and allocates the five lists.
Allocate ==
    /\ pc \in {"test", "start"}
    /\ sim_nums' = ListMul(ListMul(<<0>>, num_sims), horizon)
    /\ times' = ListMul(ListMul(<<0>>, num_sims), horizon)
    /\ chosen_arms' = ListMul(ListMul(<<0>>, num_sims), horizon)
    /\ rewards' = ListMul(ListMul(<<Float(0)>>, num_sims), horizon)
    /\ cumulative_rewards' = ListMul(ListMul(<<Float(0)>>, num_sims), horizon)
    /\ writes' = ListMul(ListMul(<<0>>, num_sims), horizon)
    /\ pc' = "sims"
    /\ UNCHANGED <<algVars, arms, num_sims, horizon, sim, t, index, chosen_arm, reward,
                   drawn>>

\* for sim in range(num_sims): sim = sim + 1; algo.initialize(len(arms))
BeginSim ==
    /\ pc = "sims"
    /\ sim < num_sims
    /\ sim' = sim + 1
    /\ CallInitialize(Len(arms))
    /\ t' = 0
    /\ pc' = "times"
    /\ UNCHANGED <<arms, num_sims, horizon, index, chosen_arm, reward,
                   sim_nums, times, chosen_arms, rewards, cumulative_rewards, writes, drawn>>

\* for t in range(horizon): t = t + 1; index = ...; sim_nums[index] = sim;
\* times[index] = t
BeginStep ==
    /\ pc = "times"
    /\ t < horizon
    /\ t' = t + 1
    /\ index' = Index(sim, horizon, t + 1)
    /\ sim_nums' = ListSet(sim_nums, index', sim)
    /\ times' = ListSet(times, index', t')
    /\ writes' = ListSet(writes, index', writes[Pos(writes, index')] + 1)
    /\ pc' = "select"
    /\ UNCHANGED <<algVars, arms, num_sims, horizon, sim, chosen_arm, reward,
                   chosen_arms, rewards, cumulative_rewards, drawn>>

\* chosen_arm = algo.select_arm(); chosen_arms[index] = chosen_arm + 1
\* An exception of select_arm ends _test_algorithm.
SimSelect ==
    /\ pc = "select"
    /\ \E u \in SelectDraws, r \in SelectRands : CallSelect(u, r)
    /\ chosen_arm' = IF call'.exc = "none" THEN call'.ret[1] ELSE chosen_arm
    /\ chosen_arms' = IF call'.exc = "none"
                      THEN ListSet(chosen_arms, index, OneBased(call'.ret[1]))
                      ELSE chosen_arms
    /\ pc' = IF call'.exc = "none" THEN "draw" ELSE "raised"
    /\ UNCHANGED <<arms, num_sims, horizon, sim, t, index, reward,
                   sim_nums, times, rewards, cumulative_rewards, writes, drawn>>

\* reward = arms[chosen_arm].draw(); rewards[index] = reward; then the
\* cumulative reward of the run so far.
SimDraw ==
    /\ pc = "draw"
    /\ \E u \in Draws : reward' = draw(arms[Pos(arms, chosen_arm)], u)
    /\ rewards' = ListSet(rewards, index, reward')
    /\ cumulative_rewards' =
          ListSet(cumulative_rewards, index,
                  Cumulative(t, cumulative_rewards, index, reward'))
    /\ drawn' = Some(chosen_arm)
    /\ pc' = "update"
    /\ UNCHANGED <<algVars, arms, num_sims, horizon, sim, t, index, chosen_arm,
                   sim_nums, times, chosen_arms, writes>>

\* algo.update(chosen_arm, reward)
SimUpdate ==
    /\ pc = "update"
    /\ CallUpdate(chosen_arm, reward)
    /\ drawn' = None
    /\ pc' = IF call'.exc = "none" THEN "times" ELSE "raised"
    /\ UNCHANGED <<arms, num_sims, horizon, sim, t, index, chosen_arm, reward,
                   sim_nums, times, chosen_arms, rewards, cumulative_rewards, writes>>

\* The inner loop is exhausted: the next sim.
EndSim ==
    /\ pc = "times"
    /\ t = horizon
    /\ pc' = "sims"
    /\ UNCHANGED <<algVars, arms, num_sims, horizon, sim, t, index, chosen_arm, reward,
                   sim_nums, times, chosen_arms, rewards, cumulative_rewards, writes, drawn>>

\* return [sim_nums, times, chosen_arms, rewards, cumulative_rewards]
Return ==
    /\ pc = "sims"
    /\ sim = num_sims
    /\ pc' = "returned"
    /\ UNCHANGED <<algVars, arms, num_sims, horizon, sim, t, index, chosen_arm, reward,
                   sim_nums, times, chosen_arms, rewards, cumulative_rewards, writes, drawn>>

SimNext ==
    \/ TestInitialize \/ Allocate \/ BeginSim \/ BeginStep
    \/ SimSelect \/ SimDraw \/ SimUpdate \/ EndSim \/ Return

SimSpec == SimInit /\ [][SimNext]_vars

\* ================================================================= claims
Zeros(list, zero) == \A i \in DOMAIN list : list[i] = zero

\* The mean of a list of rewards, 0.0 for the empty list.
Mean(list) ==
    IF list = <<>> THEN Float(0) ELSE RDiv(SumRats(list), Float(Len(list)))

\* The 0-based index of the first arm never tried.
FirstUntried == (CHOOSE i \in DOMAIN counts :
                    counts[i] = 0 /\ \A j \in 1..(i - 1) : counts[j] # 0) - 1

\* C1: after initialize(n), whatever the object held before, counts and
\* values both have length n and every entry of both is zero.
C1_InitializeResets ==
    (call.op = "initialize" /\ call.arg[1] >= 0)
        => /\ call.exc = "none"
           /\ Len(counts) = call.arg[1]
           /\ Len(values) = call.arg[1]
           /\ Zeros(counts, 0)
           /\ Zeros(values, Float(0))

C1_Witness ==
    /\ call.op = "initialize"
    /\ call.arg = Some(MaxArms)
    /\ Len(counts) = MaxArms
    /\ algo = "EpsilonGreedy"

\* C2: after initialize(n) and any updates with in-range arms, counts[i] is
\* the number of updates of arm i and values[i] the mean of their rewards
\* (0 when there were none).
C2_RunningMean ==
    (nArms # None /\ nArms[1] >= 0 /\ inRangeOnly)
        => /\ Len(counts) = nArms[1]
           /\ Len(values) = nArms[1]
           /\ Len(rewardsOf) = nArms[1]
           /\ \A i \in 1..nArms[1] :
                 /\ counts[i] = Len(rewardsOf[i])
                 /\ values[i] = Mean(rewardsOf[i])

C2_Witness ==
    /\ nArms = Some(2)
    /\ inRangeOnly
    /\ rewardsOf[1] = <<Float(1), Float(0)>>
    /\ rewardsOf[2] = <<Float(1)>>
    /\ values[1] = Rat(1, 2)

\* C3: UCB1.select_arm returns the lowest index whose count is 0 whenever
\* there is one; so, after initialize(n), when every select_arm is followed
\* by the update of the arm it returned, the k-th select_arm returns k - 1
\* for k = 1..n, whatever the rewards.
C3_Ucb1Priming ==
    (algo = "UCB1" /\ call.op = "select_arm")
        => /\ (0 \in Range(counts))
                => (call.exc = "none" /\ call.ret = Some(FirstUntried))
           /\ (matched /\ nArms # None /\ nSelects <= nArms[1])
                => call.ret = Some(nSelects - 1)

C3_Witness ==
    /\ algo = "UCB1"
    /\ call.op = "select_arm"
    /\ matched
    /\ nArms = Some(3)
    /\ nSelects = 3
    /\ call.ret = Some(2)
    /\ values[1] = Float(0)
    /\ values[2] = Float(1)

\* C4: a select_arm call, of either class and on any branch, leaves counts
\* and values as they were.
C4_SelectArmFrame ==
    [][call'.op = "select_arm" => (counts' = counts /\ values' = values)]_vars

C4_Witness ==
    /\ algo = "EpsilonGreedy"
    /\ call.op = "select_arm"
    /\ call.branch = "explore"
    /\ call.ret = Some(1)
    /\ counts = <<1, 1>>

\* The 1-based offset of time tt of run s in the trace.
Offset(s, tt) == (s - 1) * horizon + tt

\* C5: the trace returned for num_sims = S and horizon = H has five lists of
\* length S * H; the entry at offset (s - 1) * H + (t - 1) holds sim number s
\* and time t, and every offset has been written once.
C5_TraceShape ==
    (pc = "returned")
        => /\ Len(sim_nums) = num_sims * horizon
           /\ Len(times) = num_sims * horizon
           /\ Len(chosen_arms) = num_sims * horizon
           /\ Len(rewards) = num_sims * horizon
           /\ Len(cumulative_rewards) = num_sims * horizon
           /\ \A s \in 1..num_sims : \A tt \in 1..horizon :
                 /\ sim_nums[Offset(s, tt)] = s
                 /\ times[Offset(s, tt)] = tt
           /\ \A i \in DOMAIN writes : writes[i] = 1
           /\ \A i \in 1..(Len(sim_nums) - 1) : sim_nums[i] <= sim_nums[i + 1]

C5_Witness ==
    /\ pc = "returned"
    /\ num_sims = 2
    /\ horizon = 2
    /\ sim_nums = <<1, 1, 2, 2>>
    /\ times = <<1, 2, 1, 2>>

\* The rewards recorded at times 1..tt of run s.
RunRewards(s, tt) == [k \in 1..tt |-> rewards[Offset(s, k)]]

\* C6: in the returned trace the cumulative reward at time t of run s is the
\* sum of the rewards of times 1..t of that run alone.
C6_CumulativePerRun ==
    (pc = "returned")
        => \A s \in 1..num_sims : \A tt \in 1..horizon :
              cumulative_rewards[Offset(s, tt)] = SumRats(RunRewards(s, tt))

C6_Witness ==
    /\ pc = "returned"
    /\ num_sims = 2
    /\ horizon = 2
    /\ cumulative_rewards[2] = Float(2)
    /\ rewards[3] = Float(1)
    /\ cumulative_rewards[3] = Float(1)

\* The times before t of the current run at which arm i (0-based) was chosen.
EarlierPulls(i) == {k \in 1..(t - 1) : chosen_arms[Offset(sim, k)] = i + 1}

RECURSIVE SeqOfSet(_)
\* The members of a set of times, in ascending order.
SeqOfSet(S) ==
    IF S = {} THEN <<>>
    ELSE LET m == CHOOSE x \in S : \A y \in S : x <= y
         IN  <<m>> \o SeqOfSet(S \ {m})

\* The rewards drawn at the times of EarlierPulls(i), in order.
EarlierRewards(i) ==
    LET ks == SeqOfSet(EarlierPulls(i))
    IN  [j \in 1..Len(ks) |-> rewards[Offset(sim, ks[j])]]

\* C7: when the harness calls select_arm at time t of a run, counts[i] is the
\* number of earlier times of that run at which arm i was chosen and values[i]
\* the mean of the rewards drawn then: nothing of earlier runs, or of the
\* object's use before the simulation, is left.
C7_NoStateAcrossRuns ==
    (pc = "select")
        => /\ Len(counts) = Len(arms)
           /\ Len(values) = Len(arms)
           /\ SumInts(counts) = t - 1
           /\ \A i \in 0..(Len(arms) - 1) :
                 /\ counts[i + 1] = Cardinality(EarlierPulls(i))
                 /\ values[i + 1] = Mean(EarlierRewards(i))

C7_Witness ==
    /\ pc = "select"
    /\ sim = 2
    /\ t = 2
    /\ Len(arms) = 2
    /\ chosen_arms[1] = 2
    /\ rewards[1] = Float(1)
    /\ chosen_arms[Offset(2, 1)] = 1
    /\ counts = <<1, 0>>

\* C8: initialize(n_arms) with n_arms <= 0 never completes normally.
C8_InitializeRejectsNonPositive ==
    (call.op = "initialize" /\ call.arg[1] <= 0) => call.exc # "none"

\* C9: after initialize(n), an update whose chosen_arm is outside [0, n)
\* fails and leaves counts and values as they were.
C9_UpdateRejectsOutOfRange ==
    [][(/\ call'.op = "update"
        /\ nArms # None
        /\ Len(counts) = nArms[1]
        /\ Len(values) = nArms[1]
        /\ call'.arg[1] \notin 0..(nArms[1] - 1))
          => (call'.exc # "none" /\ counts' = counts /\ values' = values)]_vars

\* The list select_arm took the index of the maximum of.
Scored ==
    IF call.branch = "exploit" THEN values ELSE UcbValues(counts, values)

\* C10: on the exploit path of EpsilonGreedy and in the score phase of UCB1,
\* select_arm returns the lowest index that attains the maximum; with all
\* values equal the exploit path returns index 0.
C10_LowestIndexOfMaximum ==
    (call.op = "select_arm" /\ call.exc = "none" /\ call.branch \in {"exploit", "score"})
        => /\ \A j \in DOMAIN Scored : RLeq(Scored[j], Scored[call.ret[1] + 1])
           /\ \A j \in 1..call.ret[1] : RLess(Scored[j], Scored[call.ret[1] + 1])
           /\ (call.branch = "exploit" /\ \A j \in DOMAIN values : values[j] = values[1])
                => call.ret = Some(0)

C10_Witness ==
    /\ call.op = "select_arm"
    /\ call.branch = "exploit"
    /\ values = <<Float(0), Float(1), Float(1)>>
    /\ call.ret = Some(1)

\* r is the lowest 0-based index at which the list x has its maximum.
IsLowestMax(x, r) ==
    /\ r + 1 \in DOMAIN x
    /\ \A j \in DOMAIN x : RLeq(x[j], x[r + 1])
    /\ \A j \in 1..r : RLess(x[j], x[r + 1])

\* A select_arm call has just returned from an EpsilonGreedy whose epsilon
\* is the fixed value e (hundredths) and which has at least one arm.
FixedSelect(e) ==
    /\ algo = "EpsilonGreedy"
    /\ epsilon = Some(e)
    /\ call.op = "select_arm"
    /\ Len(values) >= 1

\* C11 (as claimed): an EpsilonGreedy with epsilon = 0.0 exploits on every
\* draw of the generator: select_arm returns max_index(values) and never
\* takes the random-arm branch.
C11_ZeroEpsilonAlwaysExploits ==
    FixedSelect(0) => (call.branch = "exploit" /\ IsLowestMax(values, call.ret[1]))

\* C11 (amended): an EpsilonGreedy with epsilon = 0.0 exploits on every draw
\* greater than 0; the draw 0.0 is not greater than epsilon and takes the
\* random-arm branch.
C11_ZeroEpsilonExploitsPositiveDraws ==
    FixedSelect(0)
        => /\ call.exc = "none"
           /\ (call.u[1] > 0)
                => (call.branch = "exploit" /\ IsLowestMax(values, call.ret[1]))
           /\ (call.u[1] = 0)
                => (call.branch = "explore" /\ call.ret[1] \in 0..(Len(values) - 1))

C11_Witness ==
    /\ FixedSelect(0)
    /\ call.u = Some(50)
    /\ call.branch = "exploit"
    /\ values = <<Float(0), Float(1)>>
    /\ call.ret = Some(1)

\* The object was constructed without counts and values and initialize has
\* not been called on it.
Uninitialized == nArms = None /\ counts = <<>> /\ values = <<>>

\* C12: on an object constructed with no counts/values and never initialized,
\* select_arm raises instead of returning an arm (UCB1; EpsilonGreedy with a
\* fixed or an annealed epsilon, on the exploit and on the explore branch),
\* and update raises for every chosen_arm.
C12_UninitializedCallsRaise ==
    (Uninitialized /\ call.op \in {"select_arm", "update"})
        => /\ call.ret = None
           /\ call.op = "select_arm" => call.exc = "ValueError"
           /\ call.op = "update" => call.exc = "IndexError"

C12_Witness ==
    /\ Uninitialized
    /\ algo = "EpsilonGreedy"
    /\ epsilon = Some(50)
    /\ call.op = "select_arm"
    /\ call.u = Some(0)
    /\ call.branch = "explore"
    /\ call.exc = "ValueError"

\* C13: a simulation over an empty arm list (num_sims >= 1, horizon >= 1)
\* ends in an exception for either algorithm: it never returns a trace, no
\* arm is drawn and no update is made before the failure, which is the
\* ValueError of the first select_arm of the first run.
C13_EmptyArmsAbort ==
    Len(arms) = 0
        => /\ pc \notin {"draw", "update", "returned"}
           /\ drawn = None
           /\ call.op # "update"
           /\ pc = "sims" => sim = 0
           /\ pc = "times" => (sim = 1 /\ t = 0)
           /\ pc = "raised" => /\ call.op = "select_arm"
                               /\ call.exc = "ValueError"
                               /\ sim = 1 /\ t = 1
                               /\ \A i \in DOMAIN rewards : rewards[i] = Float(0)
                               /\ \A i \in DOMAIN chosen_arms : chosen_arms[i] = 0

C13_Witness ==
    /\ Len(arms) = 0
    /\ num_sims = 2 /\ horizon = 2
    /\ algo = "UCB1"
    /\ pc = "raised"
    /\ call.op = "select_arm"
    /\ call.exc = "ValueError"

\* The select_arm of time tt of run s has returned and its arm is recorded.
Selected(s, tt) ==
    \/ s < sim
    \/ s = sim /\ tt < t
    \/ s = sim /\ tt = t /\ pc \notin {"select", "raised"}

\* The times of a run at which UCB1 still has an untried arm.
PrimingTimes == 1..(IF horizon < Len(arms) THEN horizon ELSE Len(arms))

\* C14: in a simulation of UCB1 over n arms, in every run the arm recorded
\* at time t is t (1-based) for t = 1..min(horizon, n), whatever the rewards;
\* so with horizon < n no select_arm reaches the confidence-bound score, and
\* with horizon >= n every run pulls every arm.
C14_SimulatedPriming ==
    algo = "UCB1"
        => /\ \A s \in 1..num_sims, tt \in PrimingTimes :
                 Selected(s, tt) => chosen_arms[Offset(s, tt)] = tt
           /\ horizon < Len(arms) => call.branch # "score"
           /\ (pc = "times" /\ t >= Len(arms))
                 => \A i \in DOMAIN counts : counts[i] >= 1
           /\ (pc = "returned" /\ horizon >= Len(arms))
                 => \A s \in 1..num_sims, a \in 1..Len(arms) :
                       \E tt \in 1..horizon : chosen_arms[Offset(s, tt)] = a

C14_Witness ==
    /\ algo = "UCB1"
    /\ pc = "returned"
    /\ Len(arms) = 3
    /\ num_sims = 2 /\ horizon = 2
    /\ chosen_arms = <<1, 2, 1, 2>>
    /\ rewards = <<Float(1), Float(0), Float(0), Float(1)>>

\* The entries of the trace at the offset of the step under way.
RecordedArm == chosen_arms[index + 1]
RecordedReward == rewards[index + 1]

\* C15: at every step of the simulator the recorded chosen_arms entry is the
\* index select_arm returned plus one and lies in 1..len(arms); the reward
\* recorded at the step was drawn from arms[chosen_arms - 1], and the update
\* of the step is made on that arm with that reward.
C15_StepUsesOneArm ==
    /\ \A s \in 1..num_sims, tt \in 1..horizon :
          Selected(s, tt) => chosen_arms[Offset(s, tt)] \in 1..Len(arms)
    /\ pc = "draw"
          => /\ call.op = "select_arm" /\ call.exc = "none"
             /\ RecordedArm = call.ret[1] + 1
             /\ RecordedArm \in 1..Len(arms)
    /\ pc = "update"
          => /\ drawn = Some(RecordedArm - 1)
             /\ RecordedReward = reward
    /\ (pc = "times" /\ t >= 1)
          => /\ call.op = "update" /\ call.exc = "none"
             /\ call.arg = Some(RecordedArm - 1)
             /\ rewardsOf[RecordedArm] # <<>>
             /\ rewardsOf[RecordedArm][Len(rewardsOf[RecordedArm])] = RecordedReward

C15_Witness ==
    /\ algo = "EpsilonGreedy"
    /\ pc = "times" /\ t = 2
    /\ call.op = "update"
    /\ call.arg = Some(1)
    /\ RecordedArm = 2
    /\ RecordedReward = Float(1)
    /\ chosen_arms[index] = 3

\* The object is a UCB1 on which initialize(n), n >= 1, was called and every
\* update since had 0 <= chosen_arm < n.
Ucb1InUse ==
    /\ algo = "UCB1"
    /\ nArms # None
    /\ nArms[1] >= 1
    /\ inRangeOnly

\* C16: after initialize(n), n >= 1, and any select_arm and in-range update
\* calls, no count is negative, and whenever UCB1.select_arm evaluates the
\* confidence-bound score every count is >= 1 and the total is >= n >= 1:
\* the logarithm has a positive argument and no division is by zero.
C16_Ucb1ScoreGuard ==
    Ucb1InUse
        => /\ Len(counts) = nArms[1]
           /\ \A i \in DOMAIN counts : counts[i] >= 0
           /\ (call.op = "select_arm" /\ call.branch = "score")
                 => /\ call.exc = "none"
                    /\ \A i \in DOMAIN counts : counts[i] >= 1
                    /\ SumInts(counts) >= nArms[1]
                    /\ math_log(SumInts(counts) * LogScale) >= 0
           /\ (call.op = "select_arm" /\ call.branch = "prime")
                 => \E i \in DOMAIN counts : counts[i] = 0

C16_Witness ==
    /\ Ucb1InUse
    /\ nArms = Some(3)
    /\ counts = <<1, 1, 1>>
    /\ call.op = "select_arm"
    /\ call.branch = "score"
    /\ call.exc = "none"

\* C17: an EpsilonGreedy with a fixed epsilon e compares every draw u with e
\* itself: it exploits (returns max_index(values)) exactly when u > e and
\* otherwise, u == e included, explores and returns some index in
\* [0, n_arms); with e = 1.0 every call explores, and after initialize(n),
\* n >= 1, every returned index is in [0, n).
C17_FixedEpsilonRule ==
    (algo = "EpsilonGreedy" /\ epsilon # None /\ call.op = "select_arm")
        => /\ call.branch = "exploit" <=> call.u[1] > epsilon[1]
           /\ call.branch = "explore" <=> call.u[1] <= epsilon[1]
           /\ epsilon[1] = 100 => call.branch = "explore"
           /\ Len(values) >= 1
                 => /\ call.exc = "none"
                    /\ call.ret[1] \in 0..(Len(values) - 1)
                    /\ call.u[1] > epsilon[1] => IsLowestMax(values, call.ret[1])
           /\ (nArms # None /\ nArms[1] >= 1)
                 => /\ call.exc = "none"
                    /\ call.ret[1] \in 0..(nArms[1] - 1)

C17_Witness ==
    /\ algo = "EpsilonGreedy"
    /\ epsilon = Some(50)
    /\ nArms = Some(2)
    /\ call.op = "select_arm"
    /\ call.u = Some(50)
    /\ call.branch = "explore"
    /\ values = <<Float(1), Float(0)>>
    /\ call.ret = Some(1)

\* The annealed epsilon (hundredths) after k pulls in all.
Annealed(k) == EffectiveEpsilon(None, <<k>>)

\* C18: without a configured epsilon, the epsilon select_arm computes,
\* 1 / ln(sum(counts) + 1 + 1e-7), is defined and positive for every total
\* of pulls >= 0, is strictly smaller after one more pull, and is the same
\* for every distribution of that total over the arms and for every reward.
C18_AnnealedEpsilonDecreases ==
    (algo = "EpsilonGreedy" /\ epsilon = None)
        => LET k == SumInts(counts)
           IN  /\ k >= 0
               /\ math_log((k + 1) * LogScale + 1) > 0
               /\ Annealed(k) > 0
               /\ Annealed(k + 1) < Annealed(k)
               /\ \A j \in 0..k : j < k => Annealed(k) < Annealed(j)
               /\ EffectiveEpsilon(epsilon, counts) = Annealed(k)
               /\ call.op = "select_arm"
                     => (call.branch = "exploit" <=> call.u[1] > Annealed(k))

C18_Witness ==
    /\ algo = "EpsilonGreedy"
    /\ epsilon = None
    /\ counts = <<2, 0, 1>>
    /\ Annealed(3) = 72
    /\ call.op = "select_arm"
    /\ call.u = Some(99)
    /\ call.branch = "exploit"

\* The step is an update(chosen_arm, reward) with 0 <= chosen_arm < n that
\* returned.
InRangeUpdateStep ==
    /\ call'.op = "update"
    /\ call'.exc = "none"
    /\ call'.arg[1] \in 0..(Len(counts) - 1)

\* C19: an update with an in-range arm adds exactly 1 to counts[chosen_arm]
\* and changes values[chosen_arm] only; the counts and values of every other
\* arm, the lengths of both lists and the configured epsilon stay as they
\* were, so sum(counts) grows by exactly 1; and no step other than an
\* initialize lowers a count.
C19_UpdateFrame ==
    [][ /\ InRangeUpdateStep
           => LET a == call'.arg[1] + 1
              IN  /\ Len(counts') = Len(counts)
                  /\ Len(values') = Len(values)
                  /\ counts'[a] = counts[a] + 1
                  /\ a \in DOMAIN rewardsOf
                        => values'[a] = NewValue(counts[a] + 1, values[a],
                                                 rewardsOf'[a][Len(rewardsOf'[a])])
                  /\ \A j \in DOMAIN counts : j # a => counts'[j] = counts[j]
                  /\ \A j \in DOMAIN values : j # a => values'[j] = values[j]
                  /\ epsilon' = epsilon
                  /\ algo' = algo
                  /\ SumInts(counts') = SumInts(counts) + 1
        /\ call'.op # "initialize"
           => /\ Len(counts') = Len(counts)
              /\ \A j \in DOMAIN counts : counts'[j] >= counts[j]
      ]_vars

C19_Witness ==
    /\ call.op = "update"
    /\ call.exc = "none"
    /\ call.arg = Some(1)
    /\ nArms = Some(3)
    /\ inRangeOnly
    /\ counts = <<1, 1, 1>>
    /\ values = <<Float(1), Float(0), Float(1)>>

\* C20: initialize is idempotent and erases history: every initialize(n)
\* leaves n zeros in both lists whatever the object held, and one that
\* follows an initialize(n) at once changes nothing; so each run of the
\* simulator starts from the same algorithm state and the same untouched
\* trace whether the object was handed over initialized, as constructed or
\* with the counts of earlier use.
C20_InitializeIdempotent ==
    [][ call'.op = "initialize"
           => /\ call'.exc = "none"
              /\ counts' = ListMul(<<0>>, call'.arg[1])
              /\ values' = ListMul(<<Float(0)>>, call'.arg[1])
              /\ call'.arg = Some(Len(arms))
              /\ epsilon' = epsilon /\ algo' = algo
              /\ (nInits' = 2 /\ call.arg = call'.arg)
                    => /\ counts' = counts
                       /\ values' = values
                       /\ <<nArms', rewardsOf', inRangeOnly', matched', nSelects'>>
                             = <<nArms, rewardsOf, inRangeOnly, matched, nSelects>>
              /\ (pc' = "times" /\ sim' = 1)
                    => /\ t' = 0
                       /\ Zeros(chosen_arms', 0)
                       /\ Zeros(rewards', Float(0))
                       /\ Zeros(cumulative_rewards', Float(0))
                       /\ Zeros(writes', 0)
      ]_vars

C20_Witness ==
    /\ nInits = 2
    /\ pc = "times" /\ sim = 1 /\ t = 0
    /\ Len(arms) = 3
    /\ call.op = "initialize"
    /\ call.arg = Some(3)
    /\ counts = <<0, 0, 0>>
    /\ values = <<Float(0), Float(0), Float(0)>>

====
